---- MODULE Spec2Model ----
(***************************************************************************)
(* joyBox backend: the application object (App), its startup sequence      *)
(* (constructor, Run, LoadData, StartResourceMonitor,                      *)
(* SetupPluginManagerController), the plugin registry / stream dispatcher  *)
(* view used by the observable dialog, the recording sessions and the      *)
(* shutdown drain (App.Shutdown).                                          *)
(*                                                                         *)
(* The specifications share the variables:                                 *)
(*   StartupSpec   the constructor and Run, from an empty process          *)
(*   RestoreSpec   LoadData on a fixed observable table                    *)
(*   DispatchSpec  the registry and dispatcher operations of a running app *)
(*   Spec          the recording sessions and the shutdown of a running app*)
(*   DrainSpec     the shutdown with completions reported synchronously    *)
(*   QuotaSpec, StorageSpec, HandoverSpec  the quota and handover scenarios*)
(*   UtilSpec      GenFilename and FileSize                                *)
(*   GuardSpec     the route guard of the frontend router                  *)
(***************************************************************************)
EXTENDS Integers, Sequences, FiniteSets, TLC

(***************************************************************************)
(* Bounds.                                                                 *)
(***************************************************************************)
\* Register draws its fresh ids from 0..MaxId
MaxId == 2
\* quota limits of the persisted settings are drawn from -1..MaxQuota
MaxQuota == 1
\* how often Shutdown may be entered (the SIGTERM handler, the RPC callback)
MaxShutdownCalls == 2
\* how often StopRecording is called for one label (operator, controller)
MaxStopCalls == 2
\* the disk usage of the archive directory and the storage limits are
\* drawn from 0..MaxUsage
MaxUsage == 2
\* the clock runs from 0 to MaxTime, in ticks of half a second
MaxTime == 2
\* a random byte is drawn from 0..MaxByte
MaxByte == 1
\* a file has 0..MaxFileSize bytes
MaxFileSize == 2

\* Buffer.alloc(3): the random suffix has three bytes
SuffixBytes == 3
\* toString('hex'): two digits to the base 16 per byte
HexBase == 16
\* the format DDMMYYYYHHmmss drops what is below the second
TicksPerSecond == 2
\* how many navigations the router is asked for
MaxNavigations == 2

\* the plugins the constructor registers, in the order of the calls
\* (a prefix of the five calls of the constructor)
RegisteredNames == <<"bongacams", "chaturbate">>
\* names a persisted row may carry: the registered ones and one that no
\* registered plugin has (a plugin of an earlier installation)
PersistedNames == {RegisteredNames[i] : i \in 1..Len(RegisteredNames)} \cup {"legacy"}
\* observable urls
Urls == {"u1", "u2"}
Ids == 0..MaxId
QuotaValues == (0 - 1)..MaxQuota
QuotaKinds == {"storage", "instance", "downloadSpeed"}
NoPlugin == "none"

VARIABLES
    pc,            \* position of the main script: constructor, Run, running, exited
    exitCode,      \* -1 while the process lives, else the code given to process.exit
    plugins,       \* pluginManager.Plugins: sequence of [name, id, enabled]
    observables,   \* App.observables: url -> sequence of plugin names (its plugins)
    linked,        \* ids handed to linkedStreams.AddPlugin
    dataMounted,   \* what IsDataMounted returned
    dbMalformed,   \* storage.IsInitialized() returned false
    dbCreated,     \* rows storage.Initialize wrote in this run (<<>>: it was not called)
    fsFailed,      \* PrepareFileSystem threw
    archiveExists, \* ARCHIVE_FOLDER exists
    thumbExists,   \* THUMBNAIL_FOLDER exists
    loaded,        \* LoadData has run
    sigterm,       \* the SIGTERM handler is installed
    pmRunning,     \* pluginManager.Start() has run and Stop() has not
    listening,     \* server.listen has run
    monitor,       \* systemResourcesMonitor: "none", "awaiting", "started"
    monitorSteps,  \* history: the calls StartResourceMonitor made after its await
    fetched,       \* the observable rows of the storage, where a run fixes them at its start
    settings,      \* what storage.FetchSettings() returned to the setup
    arbiters,      \* kinds given to pluginManagerController.AddArbiter, in order
    sess,          \* recorder: label <<url, plugin>> -> "idle", "recording", "stopping"
    awaited,       \* one awaitedRecordings counter per Shutdown that registered a listener
    shutdownCalls, \* how often Shutdown was entered
    snapshot,      \* history: recorder.Records when Shutdown was first entered
    completed,     \* history: labels whose completion was notified since then
    completions,   \* history: CompleteEvent notifications since Shutdown was first entered
    stopCalls,     \* history: StopRecording calls per label since its session started
    stopEvents,    \* history: stop requests that reached the capture process, per label
    source,        \* what the plugins' polls see of a url's source: "unseen", "live", "offline"
    denied,        \* history: urls whose detection a quota arbiter has denied
    usage,         \* the last sample of the archive directory's disk usage
    lowered,       \* history: the storage limit was lowered below the usage with sessions running
    startOrder,    \* labels of the sessions in the records, oldest first
    generated,     \* Util: the GenFilename calls made, [url, time, bytes, name]
    measured,      \* Util: the FileSize calls made, [stat, size]
    events,        \* history: per url, the session-started / session-stopped events emitted
    archive,       \* per url, the filenames of the archive records finalized
    now,           \* the clock, in ticks
    guardAt,       \* router guard: "idle", the await it is suspended at, or "done"
    guardTo,       \* router guard: the route of the navigation, [path, access]
    access,        \* the store's access.access
    nextCalls,     \* history: the arguments of the next calls of this navigation
    navigations,   \* history: how many navigations were started
    passphrase,    \* history: what RequestPassphrase gave: "none", "granted", "refused"
    accessAtNext,  \* history: access.access when next was called
    awaitFailed    \* history: the await that threw: "none", "init", "upgrade", "passphrase"

vars == <<pc, exitCode, plugins, observables, linked, dataMounted, dbMalformed,
          dbCreated, fsFailed, archiveExists, thumbExists, loaded, sigterm,
          pmRunning, listening, monitor, monitorSteps, fetched,
          settings, arbiters, sess, awaited,
          shutdownCalls, snapshot, completed, completions, stopCalls,
          stopEvents, source, denied, usage, lowered, startOrder, generated,
          measured, events, archive, now, guardAt, guardTo, access,
          nextCalls, navigations, passphrase, accessAtNext, awaitFailed>>

startupVars == <<dataMounted, dbMalformed, dbCreated, fsFailed, archiveExists,
                 thumbExists, loaded, sigterm, listening, monitor, monitorSteps, fetched,
                 settings, linked>>
sessionVars == <<sess, awaited, shutdownCalls, snapshot, completed, completions,
                 stopCalls, stopEvents>>

quotaVars == <<source, denied, usage, lowered, startOrder>>
utilVars == <<generated, measured>>
handoverVars == <<events, archive, now>>
guardVars == <<guardAt, guardTo, access, nextCalls, navigations, passphrase,
               accessAtNext, awaitFailed>>
extVars == <<source, denied, usage, lowered, startOrder, generated, measured,
             events, archive, now, guardAt, guardTo, access, nextCalls,
             navigations, passphrase, accessAtNext, awaitFailed>>

Labels == Urls \X {RegisteredNames[i] : i \in 1..Len(RegisteredNames)}

(***************************************************************************)
(* Helpers on sequences.                                                   *)
(***************************************************************************)
Range(s) == {s[i] : i \in 1..Len(s)}

NoDup(s) == \A i, j \in 1..Len(s) : i # j => s[i] # s[j]

\* Array.prototype.find on a plugin list: index of the first element with
\* the name, 0 when there is none
RECURSIVE IndexOfName(_, _, _)
IndexOfName(ps, name, i) ==
    IF i > Len(ps) THEN 0
    ELSE IF ps[i].name = name THEN i
    ELSE IndexOfName(ps, name, i + 1)

(***************************************************************************)
(* Plugin registry.                                                        *)
(***************************************************************************)
\* pluginManager.FindPlugin(name): index into plugins, 0 for null
FindPlugin(ps, name) == IndexOfName(ps, name, 1)

\* pluginManager.Register(name, service) with the id it chose
Register(ps, name, id) == Append(ps, [name |-> name, id |-> id, enabled |-> TRUE])

\* pluginManager.ReorderPlugins(ids): the listed plugins first, in the order
\* of the list, the others after them in their relative order
RECURSIVE ListedFirst(_, _)
ListedFirst(ps, ids) ==
    IF ids = <<>> THEN <<>>
    ELSE SelectSeq(ps, LAMBDA p : p.id = Head(ids)) \o
         ListedFirst(SelectSeq(ps, LAMBDA p : p.id # Head(ids)), Tail(ids))

ReorderPlugins(ps, ids) ==
    ListedFirst(ps, ids) \o SelectSeq(ps, LAMBDA p : p.id \notin Range(ids))

(***************************************************************************)
(* Stream dispatcher.                                                      *)
(***************************************************************************)
\* name of the first plugin of the registry with the id, NoPlugin if none
RECURSIVE NameOfId(_, _, _)
NameOfId(ps, id, i) ==
    IF i > Len(ps) THEN NoPlugin
    ELSE IF ps[i].id = id THEN ps[i].name
    ELSE NameOfId(ps, id, i + 1)

\* linkedStreams.AddPlugin(pluginId, observableUris): the plugin joins the
\* list of every listed observable it is not yet in; a listed url that is
\* no observable yet becomes one
AddPlugin(obs, ps, id, uris) ==
    LET name == NameOfId(ps, id, 1) IN
    IF name = NoPlugin THEN obs
    ELSE [u \in DOMAIN obs \cup uris |->
            IF u \notin uris THEN obs[u]
            ELSE IF u \notin DOMAIN obs THEN <<name>>
            ELSE IF name \in Range(obs[u]) THEN obs[u]
            ELSE Append(obs[u], name)]

(***************************************************************************)
(* App.PrepareFileSystem: the folders after the call and whether it threw. *)
(* t1 and t2 say whether the first and the second mkdirSync call throw.    *)
(***************************************************************************)
PrepareFileSystem(a, t, t1, t2) ==
    IF ~a
    THEN IF t1 THEN [archive |-> FALSE, thumb |-> t, threw |-> TRUE]
         ELSE IF t2 THEN [archive |-> TRUE, thumb |-> t, threw |-> TRUE]
         ELSE [archive |-> TRUE, thumb |-> TRUE, threw |-> FALSE]
    ELSE IF ~t
    THEN IF t1 THEN [archive |-> TRUE, thumb |-> FALSE, threw |-> TRUE]
         ELSE [archive |-> TRUE, thumb |-> TRUE, threw |-> FALSE]
    ELSE [archive |-> TRUE, thumb |-> TRUE, threw |-> FALSE]

(***************************************************************************)
(* App.InitializeDb: storage.Initialize(names) creates one row per         *)
(* registered plugin; the storage numbers the rows itself.                 *)
(***************************************************************************)
InitializeDb(ps) ==
    [i \in 1..Len(ps) |-> [id |-> i, name |-> ps[i].name, enabled |-> TRUE]]

(***************************************************************************)
(* App.LoadData, the plugin part: every persisted row whose name is        *)
(* registered gives its id and enabled flag to that plugin.                *)
(***************************************************************************)
RECURSIVE LoadPlugins(_, _)
LoadPlugins(ps, rows) ==
    IF rows = <<>> THEN ps
    ELSE LET x == Head(rows)
             i == FindPlugin(ps, x.name)
         IN  IF i = 0 THEN LoadPlugins(ps, Tail(rows))
             ELSE LoadPlugins([ps EXCEPT ![i].id = x.id, ![i].enabled = x.enabled],
                              Tail(rows))

\* the ids LoadData hands to linkedStreams.AddPlugin
LinkedIds(ps, rows) ==
    {rows[k].id : k \in {j \in 1..Len(rows) : FindPlugin(ps, rows[j].name) # 0}}

(***************************************************************************)
(* App.LoadData, the observable part: a persisted observable is restored   *)
(* with the plugins its names resolve to; the callback returns at the      *)
(* first name that resolves to no plugin and restores nothing.             *)
(***************************************************************************)
\* a wrong callback: a name that resolves to no plugin is skipped and the
\* observable is restored with the plugins that resolve
ResolveNamesSkippingMissing(ps, names) ==
    [ok |-> TRUE, plugins |-> SelectSeq(names, LAMBDA n : FindPlugin(ps, n) # 0)]

RECURSIVE ResolveNames(_, _)
ResolveNames(ps, names) ==
    IF names = <<>> THEN [ok |-> TRUE, plugins |-> <<>>]
    ELSE IF FindPlugin(ps, Head(names)) = 0 THEN [ok |-> FALSE, plugins |-> <<>>]
    ELSE LET rest == ResolveNames(ps, Tail(names))
         IN  [ok |-> rest.ok,
              plugins |-> IF rest.ok THEN <<Head(names)>> \o rest.plugins ELSE <<>>]

RECURSIVE RestoreObservables(_, _, _)
RestoreObservables(obs, ps, rows) ==
    IF rows = <<>> THEN obs
    ELSE LET x == Head(rows)
             r == ResolveNames(ps, x.plugins)
         IN  IF ~r.ok THEN RestoreObservables(obs, ps, Tail(rows))
             ELSE RestoreObservables(
                      [u \in DOMAIN obs \cup {x.url} |->
                          IF u = x.url THEN r.plugins ELSE obs[u]],
                      ps, Tail(rows))

\* pluginState.map(x => x.id)
RowIds(rows) == [k \in 1..Len(rows) |-> rows[k].id]

LoadData(ps, rows) == ReorderPlugins(LoadPlugins(ps, rows), RowIds(rows))

(***************************************************************************)
(* App.SetupPluginManagerController: one AddArbiter per quota whose        *)
(* configured limit is greater than zero.                                  *)
(***************************************************************************)
\* a wrong test: a limit of zero registers the arbiter
QuotaEnabledAtZero(limit) == limit >= 0

\* settings.<kind>Quota > 0
QuotaEnabled(limit) == limit > 0

\* a wrong setup: the instance arbiter is registered by the storage limit
SetupInstanceByStorageLimit(s) ==
    (IF QuotaEnabled(s.storageQuota) THEN <<"storage">> ELSE <<>>) \o
    (IF QuotaEnabled(s.storageQuota) THEN <<"instance">> ELSE <<>>) \o
    (IF QuotaEnabled(s.downloadSpeedQuota) THEN <<"downloadSpeed">> ELSE <<>>)

SetupPluginManagerController(s) ==
    (IF QuotaEnabled(s.storageQuota) THEN <<"storage">> ELSE <<>>) \o
    (IF QuotaEnabled(s.instanceQuota) THEN <<"instance">> ELSE <<>>) \o
    (IF QuotaEnabled(s.downloadSpeedQuota) THEN <<"downloadSpeed">> ELSE <<>>)

(***************************************************************************)
(* What the storage may hold when the process starts.                      *)
(***************************************************************************)
\* lists of distinct plugin names
NameLists ==
    {l \in UNION {[1..n -> PersistedNames] : n \in 0..Cardinality(PersistedNames)} :
        NoDup(l)}

\* the plugin table of an initialized storage: an earlier run initialized it
\* with the names registered then (storage.Initialize(names) numbered the
\* rows), and the operator has since reordered the rows and toggled flags
DbPluginRows ==
    {rows \in UNION {[1..n -> [id : 1..n, name : PersistedNames, enabled : BOOLEAN]] :
                        n \in 0..Cardinality(PersistedNames)} :
        \A i, j \in 1..Len(rows) :
            i # j => rows[i].id # rows[j].id /\ rows[i].name # rows[j].name}

\* the observable table: one row per url
DbObservableRows ==
    {rows \in UNION {[1..n -> [url : Urls, plugins : NameLists]] :
                        n \in 0..Cardinality(Urls)} :
        \A i, j \in 1..Len(rows) : i # j => rows[i].url # rows[j].url}

SettingsSpace ==
    [storageQuota : QuotaValues, instanceQuota : QuotaValues,
     downloadSpeedQuota : QuotaValues]

NoSettings == [storageQuota |-> 0, instanceQuota |-> 0, downloadSpeedQuota |-> 0]

EmptyMap == [u \in {} |-> <<>>]

\* StartResourceMonitor after its await, statement by statement
AfterAwait == <<"OnUpdate.On", "SetupPluginManagerController", "Start">>

(***************************************************************************)
(* The frontend router: the access levels in their order, and the routes   *)
(* by what their meta declares.  One route stands for the routes that      *)
(* declare the same level.                                                 *)
(***************************************************************************)
NO_ACCESS == 0
VIEW_ACCESS == 1
FULL_ACCESS == 2
AccessLevels == {NO_ACCESS, VIEW_ACCESS, FULL_ACCESS}
\* to.meta?.access of a route whose record declares no meta: undefined
NoLevel == 0 - 1

Routes ==
    {[path |-> "/dashboard", access |-> NO_ACCESS],
     [path |-> "/observables", access |-> VIEW_ACCESS],
     [path |-> "/clip", access |-> FULL_ACCESS],
     [path |-> "/404", access |-> NoLevel]}

\* no navigation was started; the client has no access yet
GuardIdle ==
    /\ guardAt = "idle"
    /\ guardTo = [path |-> "/dashboard", access |-> NO_ACCESS]
    /\ access = NO_ACCESS
    /\ nextCalls = <<>>
    /\ navigations = 0
    /\ passphrase = "none"
    /\ accessAtNext = NoLevel
    /\ awaitFailed = "none"

\* nothing is known of the sources yet and nothing was denied
ExtIdle ==
    /\ GuardIdle
    /\ source = [u \in Urls |-> "unseen"]
    /\ denied = {}
    /\ usage = 0
    /\ lowered = FALSE
    /\ startOrder = <<>>
    /\ generated = <<>>
    /\ measured = <<>>
    /\ events = [u \in Urls |-> <<>>]
    /\ archive = [u \in Urls |-> <<>>]
    /\ now = 0

(***************************************************************************)
(* Startup: the constructor, then Run, then the continuation of            *)
(* StartResourceMonitor.  The script `new App(); app.Run()` runs to its    *)
(* end before any continuation of an await is scheduled.                   *)
(***************************************************************************)
StartupInit ==
    /\ pc = "ctor"
    /\ exitCode = 0 - 1
    /\ plugins = <<>>
    /\ observables = EmptyMap
    /\ linked = {}
    /\ dataMounted = FALSE
    /\ dbMalformed = FALSE
    /\ dbCreated = <<>>
    /\ fsFailed = FALSE
    /\ archiveExists = FALSE
    /\ thumbExists = FALSE
    /\ loaded = FALSE
    /\ sigterm = FALSE
    /\ pmRunning = FALSE
    /\ listening = FALSE
    /\ monitor = "none"
    /\ monitorSteps = <<>>
    /\ fetched = <<>>
    /\ settings = NoSettings
    /\ arbiters = <<>>
    /\ sess = [l \in Labels |-> "idle"]
    /\ awaited = <<>>
    /\ shutdownCalls = 0
    /\ snapshot = {}
    /\ completed = {}
    /\ completions = 0
    /\ stopCalls = [l \in Labels |-> 0]
    /\ stopEvents = [l \in Labels |-> 0]
    /\ ExtIdle

\* constructor: this.RegisterPlugin(name, locator), one call per plugin
RegisterPlugin ==
    /\ pc = "ctor"
    /\ Len(plugins) < Len(RegisteredNames)
    /\ \E id \in Ids \ {plugins[i].id : i \in 1..Len(plugins)} :
          plugins' = Register(plugins, RegisteredNames[Len(plugins) + 1], id)
    /\ UNCHANGED <<pc, exitCode, observables, pmRunning, arbiters>>
    /\ UNCHANGED startupVars
    /\ UNCHANGED sessionVars
    /\ UNCHANGED extVars

\* constructor: this.StartResourceMonitor() runs up to its await
ConstructorEnd ==
    /\ pc = "ctor"
    /\ Len(plugins) = Len(RegisteredNames)
    /\ monitor' = "awaiting"
    /\ pc' = "run"
    /\ UNCHANGED <<monitorSteps, fetched>>
    /\ UNCHANGED <<exitCode, plugins, observables, pmRunning, arbiters>>
    /\ UNCHANGED <<dataMounted, dbMalformed, dbCreated, fsFailed, archiveExists,
                   thumbExists, loaded, sigterm, listening, settings, linked>>
    /\ UNCHANGED sessionVars
    /\ UNCHANGED extVars

\* Run: the IsDataMounted check
RunCheckData ==
    /\ pc = "run"
    /\ \E m \in BOOLEAN :
          /\ dataMounted' = m
          /\ IF m THEN pc' = "db" /\ exitCode' = exitCode
                  ELSE pc' = "exited" /\ exitCode' = 1
    /\ UNCHANGED <<plugins, observables, pmRunning, arbiters>>
    /\ UNCHANGED <<dbMalformed, dbCreated, fsFailed, archiveExists, thumbExists,
                   loaded, sigterm, listening, monitor, monitorSteps, fetched,
                   settings, linked>>
    /\ UNCHANGED sessionVars
    /\ UNCHANGED extVars

\* a wrong Run: a storage that is not initialized is used as it is
RunOpenDbWithoutInitialize ==
    /\ pc = "db"
    /\ \E init \in BOOLEAN : dbMalformed' = ~init
    /\ dbCreated' = <<>>
    /\ pc' = "fs"
    /\ UNCHANGED <<exitCode, plugins, observables, pmRunning, arbiters>>
    /\ UNCHANGED <<dataMounted, fsFailed, archiveExists, thumbExists, loaded,
                   sigterm, listening, monitor, monitorSteps, fetched,
                   settings, linked>>
    /\ UNCHANGED sessionVars
    /\ UNCHANGED extVars

\* Run: the storage is opened and, when it is not initialized, initialized
RunOpenDb ==
    /\ pc = "db"
    /\ \E init \in BOOLEAN :
          /\ dbMalformed' = ~init
          /\ dbCreated' = IF init THEN <<>> ELSE InitializeDb(plugins)
    /\ pc' = "fs"
    /\ UNCHANGED <<exitCode, plugins, observables, pmRunning, arbiters>>
    /\ UNCHANGED <<dataMounted, fsFailed, archiveExists, thumbExists, loaded,
                   sigterm, listening, monitor, monitorSteps, fetched,
                   settings, linked>>
    /\ UNCHANGED sessionVars
    /\ UNCHANGED extVars

\* a wrong Run: the catch block logs the error and goes on
RunPrepareFsGoesOn ==
    /\ pc = "fs"
    /\ \E a, t, t1, t2 \in BOOLEAN :
          /\ t => a
          /\ LET r == PrepareFileSystem(a, t, t1, t2) IN
             /\ archiveExists' = r.archive
             /\ thumbExists' = r.thumb
             /\ fsFailed' = r.threw
    /\ pc' = "load"
    /\ UNCHANGED <<exitCode, plugins, observables, pmRunning, arbiters>>
    /\ UNCHANGED <<dataMounted, dbMalformed, dbCreated, loaded, sigterm, listening,
                   monitor, monitorSteps, fetched,
                   settings, linked>>
    /\ UNCHANGED sessionVars
    /\ UNCHANGED extVars

\* Run: try { PrepareFileSystem() } catch { process.exit(1) }
RunPrepareFs ==
    /\ pc = "fs"
    /\ \E a, t, t1, t2 \in BOOLEAN :
          /\ t => a
          /\ LET r == PrepareFileSystem(a, t, t1, t2) IN
             /\ archiveExists' = r.archive
             /\ thumbExists' = r.thumb
             /\ fsFailed' = r.threw
             /\ IF r.threw THEN pc' = "exited" /\ exitCode' = 1
                           ELSE pc' = "load" /\ exitCode' = exitCode
    /\ UNCHANGED <<plugins, observables, pmRunning, arbiters>>
    /\ UNCHANGED <<dataMounted, dbMalformed, dbCreated, loaded, sigterm, listening,
                   monitor, monitorSteps, fetched,
                   settings, linked>>
    /\ UNCHANGED sessionVars
    /\ UNCHANGED extVars

\* storage.FetchPlugins(): the rows just written when this run initialized
\* the storage, else whatever the storage holds
FetchPlugins == IF dbMalformed THEN {dbCreated} ELSE DbPluginRows

\* Run: LoadData(), where storage.FetchObservables() returns rows
LoadDataFetching(rows) ==
    /\ pc = "load"
    /\ \E pluginState \in FetchPlugins :
          /\ plugins' = LoadData(plugins, pluginState)
          /\ linked' = LinkedIds(plugins, pluginState)
    /\ observables' = RestoreObservables(observables, plugins', rows)
    /\ loaded' = TRUE
    /\ pc' = "wire"
    /\ UNCHANGED <<exitCode, pmRunning, arbiters>>
    /\ UNCHANGED <<dataMounted, dbMalformed, dbCreated, fsFailed, archiveExists,
                   thumbExists, sigterm, listening, monitor, monitorSteps, fetched,
                   settings>>
    /\ UNCHANGED sessionVars
    /\ UNCHANGED extVars

\* Run: the SIGTERM handler, pluginManager.Start(), server.listen
RunListen ==
    /\ pc = "wire"
    /\ sigterm' = TRUE
    /\ pmRunning' = TRUE
    /\ listening' = TRUE
    /\ pc' = "running"
    /\ UNCHANGED <<exitCode, plugins, observables, arbiters>>
    /\ UNCHANGED <<dataMounted, dbMalformed, dbCreated, fsFailed, archiveExists,
                   thumbExists, loaded, monitor, monitorSteps, fetched,
                   settings, linked>>
    /\ UNCHANGED sessionVars
    /\ UNCHANGED extVars

\* a wrong scheduling: the continuation runs as soon as the constructor has
\* returned, at any statement of Run
ResumeWhileRunExecutes ==
    /\ pc \in {"run", "db", "fs", "load", "wire", "running"}
    /\ monitor = "awaiting"
    /\ \E s \in SettingsSpace :
          /\ settings' = s
          /\ arbiters' = SetupPluginManagerController(s)
    /\ monitor' = "started"
    /\ monitorSteps' = AfterAwait
    /\ UNCHANGED fetched
    /\ UNCHANGED <<pc, exitCode, plugins, observables, pmRunning>>
    /\ UNCHANGED <<dataMounted, dbMalformed, dbCreated, fsFailed, archiveExists,
                   thumbExists, loaded, sigterm, listening, linked>>
    /\ UNCHANGED sessionVars
    /\ UNCHANGED extVars

\* StartResourceMonitor after its await: the broadcaster subscribes, the
\* arbiters are set up, the monitor starts.  The await yields to the script
\* `new App(); app.Run()`, which has no await: the continuation is scheduled
\* when Run has returned.
ResumeStartResourceMonitor ==
    /\ pc = "running"
    /\ monitor = "awaiting"
    /\ \E s \in SettingsSpace :
          /\ settings' = s
          /\ arbiters' = SetupPluginManagerController(s)
    /\ monitor' = "started"
    /\ monitorSteps' = AfterAwait
    /\ UNCHANGED fetched
    /\ UNCHANGED <<pc, exitCode, plugins, observables, pmRunning>>
    /\ UNCHANGED <<dataMounted, dbMalformed, dbCreated, fsFailed, archiveExists,
                   thumbExists, loaded, sigterm, listening, linked>>
    /\ UNCHANGED sessionVars
    /\ UNCHANGED extVars

\* Run: LoadData()
RunLoadData == \E rows \in DbObservableRows : LoadDataFetching(rows)

StartupNext ==
    \/ RegisterPlugin
    \/ ConstructorEnd
    \/ RunCheckData
    \/ RunOpenDb
    \/ RunPrepareFs
    \/ RunLoadData
    \/ RunListen
    \/ ResumeStartResourceMonitor

StartupSpec == StartupInit /\ [][StartupNext]_vars

(***************************************************************************)
(* LoadData on a storage whose observable table is fixed when the process  *)
(* starts: the state is the one Run has reached before its LoadData call.  *)
(***************************************************************************)
\* the registry the constructor leaves: one plugin per registered name, in
\* the order of the RegisterPlugin calls, numbered as they were registered
ConstructedRegistry ==
    [i \in 1..Len(RegisteredNames) |->
        [name |-> RegisteredNames[i], id |-> i - 1, enabled |-> TRUE]]

RestoreInit ==
    /\ pc = "load"
    /\ exitCode = 0 - 1
    /\ plugins = ConstructedRegistry
    /\ observables = EmptyMap
    /\ linked = {}
    /\ dataMounted = TRUE
    /\ dbMalformed = FALSE
    /\ dbCreated = <<>>
    /\ fsFailed = FALSE
    /\ archiveExists = TRUE
    /\ thumbExists = TRUE
    /\ loaded = FALSE
    /\ sigterm = FALSE
    /\ pmRunning = FALSE
    /\ listening = FALSE
    /\ monitor = "awaiting"
    /\ monitorSteps = <<>>
    /\ fetched \in DbObservableRows
    /\ settings = NoSettings
    /\ arbiters = <<>>
    /\ sess = [l \in Labels |-> "idle"]
    /\ awaited = <<>>
    /\ shutdownCalls = 0
    /\ snapshot = {}
    /\ completed = {}
    /\ completions = 0
    /\ stopCalls = [l \in Labels |-> 0]
    /\ stopEvents = [l \in Labels |-> 0]
    /\ ExtIdle

\* Run: LoadData() on the fixed observable table
RunLoadDataFetched == LoadDataFetching(fetched)

RestoreNext ==
    \/ RunLoadDataFetched
    \/ RunListen

RestoreSpec == RestoreInit /\ [][RestoreNext]_vars

(***************************************************************************)
(* The observable dialog's view of the dispatcher: which plugin of an      *)
(* observable is the active one.                                           *)
(***************************************************************************)
\* plugin.enabled of the plugin object with the name
PluginEnabled(ps, name) ==
    LET i == FindPlugin(ps, name) IN i # 0 /\ ps[i].enabled

\* EditObservableDialog.Plugins: the plugins of the target observable, [] when
\* the target is no observable
Plugins(obs, u) == IF u \in DOMAIN obs THEN obs[u] ELSE <<>>

\* Array.prototype.find(x => x.enabled) || null
RECURSIVE FindEnabled(_, _, _)
FindEnabled(list, ps, i) ==
    IF i > Len(list) THEN NoPlugin
    ELSE IF PluginEnabled(ps, list[i]) THEN list[i]
    ELSE FindEnabled(list, ps, i + 1)

\* a wrong ActivePlugin: the first plugin of the list, enabled or not
ActivePluginIgnoringEnabled(obs, ps, u) ==
    IF Plugins(obs, u) = <<>> THEN NoPlugin ELSE Head(Plugins(obs, u))

\* a wrong ActivePlugin: the first enabled plugin in the registry's order
ActivePluginByGlobalOrder(obs, ps, u) ==
    LET cand == SelectSeq(ps, LAMBDA p : p.enabled /\ p.name \in Range(Plugins(obs, u)))
    IN  IF cand = <<>> THEN NoPlugin ELSE Head(cand).name

\* EditObservableDialog.ActivePlugin
ActivePlugin(obs, ps, u) == FindEnabled(Plugins(obs, u), ps, 1)

(***************************************************************************)
(* Registry and dispatcher operations of the running application.          *)
(***************************************************************************)
\* pluginManager SetEnabled(id, flag)
SetEnabled(ps, id, flag) ==
    [i \in 1..Len(ps) |-> IF ps[i].id = id THEN [ps[i] EXCEPT !.enabled = flag] ELSE ps[i]]

\* linkedStreams.RemovePlugin(pluginId): the plugin leaves every list
RemovePlugin(obs, ps, id) ==
    LET name == NameOfId(ps, id, 1) IN
    [u \in DOMAIN obs |-> SelectSeq(obs[u], LAMBDA n : n # name)]

\* the list with the element at index old moved to index new (from 0)
MoveItem(list, old, new) ==
    LET x    == list[old + 1]
        rest == [k \in 1..(Len(list) - 1) |-> IF k <= old THEN list[k] ELSE list[k + 1]]
    IN  [k \in 1..Len(list) |->
            IF k <= new THEN rest[k]
            ELSE IF k = new + 1 THEN x
            ELSE rest[k - 1]]

\* ReorderObservablePlugin(uri, oldIndex, newIndex): rejected without a
\* change when the uri is no observable or an index is outside its list
ReorderObservablePlugin(obs, u, old, new) ==
    IF u \notin DOMAIN obs \/ old >= Len(obs[u]) \/ new >= Len(obs[u]) THEN obs
    ELSE [obs EXCEPT ![u] = MoveItem(obs[u], old, new)]

\* the registry of a first run: the constructor's registrations, the rows a
\* fresh storage got from InitializeDb, loaded
FirstRunRegistry ==
    LET reg == [i \in 1..Len(RegisteredNames) |->
                   [name |-> RegisteredNames[i], id |-> i - 1, enabled |-> TRUE]]
    IN  LoadData(reg, InitializeDb(reg))

RegistryIds == {FirstRunRegistry[i].id : i \in 1..Len(FirstRunRegistry)}

\* lists of distinct registry ids
IdLists ==
    {l \in UNION {[1..n -> RegistryIds] : n \in 0..Cardinality(RegistryIds)} : NoDup(l)}

Alive == pc = "running" /\ exitCode = 0 - 1

\* a plugin reports sources: linkedStreams.AddPlugin(id, uris)
AddPluginReport(id, uris) ==
    /\ Alive
    /\ pmRunning
    /\ observables' = AddPlugin(observables, plugins, id, uris)
    /\ UNCHANGED <<pc, exitCode, plugins, pmRunning, arbiters>>
    /\ UNCHANGED startupVars
    /\ UNCHANGED sessionVars
    /\ UNCHANGED extVars

RemovePluginCall(id) ==
    /\ Alive
    /\ observables' = RemovePlugin(observables, plugins, id)
    /\ UNCHANGED <<pc, exitCode, plugins, pmRunning, arbiters>>
    /\ UNCHANGED startupVars
    /\ UNCHANGED sessionVars
    /\ UNCHANGED extVars

SetEnabledCall(id, flag) ==
    /\ Alive
    /\ plugins' = SetEnabled(plugins, id, flag)
    /\ UNCHANGED <<pc, exitCode, observables, pmRunning, arbiters>>
    /\ UNCHANGED startupVars
    /\ UNCHANGED sessionVars
    /\ UNCHANGED extVars

\* Reorder(ids): pluginManager.ReorderPlugins(ids)
ReorderCall(ids) ==
    /\ Alive
    /\ plugins' = ReorderPlugins(plugins, ids)
    /\ UNCHANGED <<pc, exitCode, observables, pmRunning, arbiters>>
    /\ UNCHANGED startupVars
    /\ UNCHANGED sessionVars
    /\ UNCHANGED extVars

\* the dialog's drag: this.$rpc.ReorderObservablePlugin(uri, oldIndex, newIndex)
ReorderObservablePluginCall(u, old, new) ==
    /\ Alive
    /\ observables' = ReorderObservablePlugin(observables, u, old, new)
    /\ UNCHANGED <<pc, exitCode, plugins, pmRunning, arbiters>>
    /\ UNCHANGED startupVars
    /\ UNCHANGED sessionVars
    /\ UNCHANGED extVars

\* the application after a first Run with the settings s
RunningInit(s) ==
    /\ pc = "running"
    /\ exitCode = 0 - 1
    /\ plugins = FirstRunRegistry
    /\ observables = EmptyMap
    /\ linked = RegistryIds
    /\ dataMounted = TRUE
    /\ dbMalformed = TRUE
    /\ dbCreated = InitializeDb(FirstRunRegistry)
    /\ fsFailed = FALSE
    /\ archiveExists = TRUE
    /\ thumbExists = TRUE
    /\ loaded = TRUE
    /\ sigterm = TRUE
    /\ pmRunning = TRUE
    /\ listening = TRUE
    /\ monitor = "started"
    /\ monitorSteps = AfterAwait
    /\ fetched = <<>>
    /\ settings = s
    /\ arbiters = SetupPluginManagerController(s)
    /\ sess = [l \in Labels |-> "idle"]
    /\ awaited = <<>>
    /\ shutdownCalls = 0
    /\ snapshot = {}
    /\ completed = {}
    /\ completions = 0
    /\ stopCalls = [l \in Labels |-> 0]
    /\ stopEvents = [l \in Labels |-> 0]
    /\ ExtIdle

Indexes == 0..Len(RegisteredNames)

DispatchInit == RunningInit(NoSettings)

DispatchNext ==
    \/ \E id \in RegistryIds, uris \in SUBSET Urls : AddPluginReport(id, uris)
    \/ \E id \in RegistryIds : RemovePluginCall(id)
    \/ \E id \in RegistryIds, flag \in BOOLEAN : SetEnabledCall(id, flag)
    \/ \E ids \in IdLists : ReorderCall(ids)
    \/ \E u \in Urls, old, new \in Indexes : ReorderObservablePluginCall(u, old, new)

DispatchSpec == DispatchInit /\ [][DispatchNext]_vars

(***************************************************************************)
(* Recording sessions.  A session is labelled by its observable and its    *)
(* plugin; it is in recorder.Records from its start until its capture      *)
(* process has reported completion.                                        *)
(***************************************************************************)
\* a wrong Records: a session that is being stopped is no longer listed
RecordsRecordingOnly(s) == {l \in DOMAIN s : s[l] = "recording"}

\* recorder.Records, as labels
Records(s) == {l \in DOMAIN s : s[l] # "idle"}

\* the observable has no session
ObservableIdle(s, u) == \A l \in DOMAIN s : l[1] = u => s[l] = "idle"

\* a wrong guard of the start: the observable's sessions are not looked at
StartsWhileBusy(s, u) == TRUE

\* the Idle -> Recording transition is taken from Idle only
MayStart(s, u) == ObservableIdle(s, u)

\* a wrong StopRecording: a session that is already stopping is stopped again
StopReachesProcessAgain(state) == state # "idle"

\* whether StopRecording for a session in this state sends a stop to the
\* capture process: only a recording session is stopped
StopReachesProcess(state) == state = "recording"

\* recorder.StopRecording(label)
StopRecording(s, l) ==
    IF StopReachesProcess(s[l]) THEN [s EXCEPT ![l] = "stopping"] ELSE s

\* Instance Quota: Evaluate denies a new session at the limit
InstanceQuotaAllows(arbs, s, sessions) ==
    "instance" \in Range(arbs) => Cardinality(Records(sessions)) < s.instanceQuota

\* the session manager starts the capture of an observable's active plugin
StartRecording(u) ==
    /\ Alive
    /\ pmRunning
    /\ LET p == ActivePlugin(observables, plugins, u) IN
       /\ p # NoPlugin
       /\ MayStart(sess, u)
       /\ InstanceQuotaAllows(arbiters, settings, sess)
       /\ sess' = [sess EXCEPT ![<<u, p>>] = "recording"]
       /\ startOrder' = Append(startOrder, <<u, p>>)
    /\ UNCHANGED <<pc, exitCode, plugins, observables, pmRunning, arbiters>>
    /\ UNCHANGED startupVars
    /\ UNCHANGED <<awaited, shutdownCalls, snapshot, completed, completions,
                   stopCalls, stopEvents>>
    /\ UNCHANGED <<source, denied, usage, lowered>>
    /\ UNCHANGED utilVars
    /\ UNCHANGED handoverVars
    /\ UNCHANGED guardVars

\* StopRecording(label) from the operator, or from the controller when the
\* plugin is no longer the active one or a quota evicts the session
StopRecordingCall(l) ==
    /\ Alive
    /\ stopCalls[l] < MaxStopCalls
    /\ sess' = StopRecording(sess, l)
    /\ stopEvents' = [stopEvents EXCEPT
                         ![l] = IF StopReachesProcess(sess[l]) THEN @ + 1 ELSE @]
    /\ stopCalls' = [stopCalls EXCEPT ![l] = IF sess[l] # "idle" THEN @ + 1 ELSE @]
    /\ UNCHANGED <<pc, exitCode, plugins, observables, pmRunning, arbiters>>
    /\ UNCHANGED startupVars
    /\ UNCHANGED <<awaited, shutdownCalls, snapshot, completed, completions>>
    /\ UNCHANGED extVars

(***************************************************************************)
(* App.Shutdown.                                                           *)
(***************************************************************************)
\* a wrong count: one less than the records
AwaitedOneLess(recs) ==
    IF recs = {} THEN 0 ELSE Cardinality(recs) - 1

\* let awaitedRecordings = this.recorder.Records.length
AwaitedRecordings(recs) == Cardinality(recs)

\* a wrong loop: one record is left out
StopTargetsButOne(recs) ==
    IF recs = {} THEN {} ELSE recs \ {CHOOSE l \in recs : TRUE}

\* this.recorder.Records.map(r => r.label): the labels StopRecording is called for
StopTargets(recs) == recs

\* the listener on CompleteEvent: --awaitedRecordings
AwaitedAfterEvent(c) == c - 1

\* ... === 0: the promise resolves
Resolves(c) == AwaitedAfterEvent(c) = 0

\* Shutdown(), from the SIGTERM handler or from the RPC handler's callback,
\* up to the await; with no record the promise is resolved at once and the
\* continuation exits
Shutdown ==
    /\ Alive
    /\ shutdownCalls < MaxShutdownCalls
    /\ shutdownCalls' = shutdownCalls + 1
    /\ LET recs == Records(sess)
           n == AwaitedRecordings(recs)
           targets == StopTargets(recs)
       IN
       /\ snapshot' = IF shutdownCalls = 0 THEN recs ELSE snapshot
       /\ IF n = 0
          THEN /\ exitCode' = 0
               /\ pc' = "exited"
               /\ UNCHANGED <<pmRunning, sess, awaited, stopCalls, stopEvents>>
          ELSE /\ pmRunning' = FALSE
               /\ sess' = [l \in Labels |->
                             IF l \in targets THEN StopRecording(sess, l)[l] ELSE sess[l]]
               /\ stopEvents' = [l \in Labels |->
                             IF l \in targets /\ StopReachesProcess(sess[l])
                             THEN stopEvents[l] + 1 ELSE stopEvents[l]]
               /\ stopCalls' = [l \in Labels |->
                             IF l \in targets THEN stopCalls[l] + 1 ELSE stopCalls[l]]
               /\ awaited' = Append(awaited, n)
               /\ UNCHANGED <<pc, exitCode>>
    /\ UNCHANGED <<plugins, observables, arbiters, completed, completions>>
    /\ UNCHANGED startupVars
    /\ UNCHANGED extVars

\* the capture process of a session reports completion: the session leaves
\* the records and CompleteEvent is emitted to every listener; a listener
\* that reaches zero resolves its promise and the continuation exits
Complete(l) ==
    /\ Alive
    /\ sess[l] # "idle"
    /\ sess' = [sess EXCEPT ![l] = "idle"]
    /\ stopCalls' = [stopCalls EXCEPT ![l] = 0]
    /\ stopEvents' = [stopEvents EXCEPT ![l] = 0]
    /\ awaited' = [i \in 1..Len(awaited) |-> AwaitedAfterEvent(awaited[i])]
    /\ completions' = IF shutdownCalls > 0 THEN completions + 1 ELSE completions
    /\ completed' = IF shutdownCalls > 0 THEN completed \cup {l} ELSE completed
    /\ IF \E i \in 1..Len(awaited) : Resolves(awaited[i])
       THEN exitCode' = 0 /\ pc' = "exited"
       ELSE UNCHANGED <<pc, exitCode>>
    /\ startOrder' = SelectSeq(startOrder, LAMBDA x : x # l)
    /\ UNCHANGED <<plugins, observables, pmRunning, arbiters, shutdownCalls, snapshot>>
    /\ UNCHANGED startupVars
    /\ UNCHANGED <<source, denied, usage, lowered>>
    /\ UNCHANGED utilVars
    /\ UNCHANGED handoverVars
    /\ UNCHANGED guardVars

\* Shutdown() when recorder.StopRecording reports the completion of the
\* sessions of sync before it returns: CompleteEvent is emitted to the
\* listeners registered so far, and the listener of this call is registered
\* after the loop of StopRecording calls
ShutdownReporting(sync) ==
    /\ Alive
    /\ shutdownCalls < MaxShutdownCalls
    /\ shutdownCalls' = shutdownCalls + 1
    /\ LET recs == Records(sess)
           n == AwaitedRecordings(recs)
           targets == StopTargets(recs)
           k == Cardinality(sync)
       IN
       /\ sync \subseteq targets
       /\ snapshot' = IF shutdownCalls = 0 THEN recs ELSE snapshot
       /\ IF n = 0
          THEN /\ exitCode' = 0
               /\ pc' = "exited"
               /\ UNCHANGED <<pmRunning, sess, awaited, stopCalls, stopEvents,
                              completed, completions, startOrder>>
          ELSE /\ pmRunning' = FALSE
               /\ sess' = [l \in DOMAIN sess |->
                             IF l \in sync THEN "idle"
                             ELSE IF l \in targets THEN StopRecording(sess, l)[l]
                             ELSE sess[l]]
               /\ stopEvents' = [l \in DOMAIN sess |->
                             IF l \in sync THEN 0
                             ELSE IF l \in targets /\ StopReachesProcess(sess[l])
                             THEN stopEvents[l] + 1 ELSE stopEvents[l]]
               /\ stopCalls' = [l \in DOMAIN sess |->
                             IF l \in sync THEN 0
                             ELSE IF l \in targets THEN stopCalls[l] + 1
                             ELSE stopCalls[l]]
               /\ startOrder' = SelectSeq(startOrder, LAMBDA x : x \notin sync)
               /\ completed' = completed \cup sync
               /\ completions' = completions + k
               /\ awaited' = Append([i \in 1..Len(awaited) |-> awaited[i] - k], n)
               /\ IF \E i \in 1..Len(awaited) : awaited[i] >= 1 /\ awaited[i] <= k
                  THEN exitCode' = 0 /\ pc' = "exited"
                  ELSE UNCHANGED <<pc, exitCode>>
    /\ UNCHANGED <<plugins, observables, arbiters>>
    /\ UNCHANGED startupVars
    /\ UNCHANGED <<source, denied, usage, lowered>>
    /\ UNCHANGED utilVars
    /\ UNCHANGED handoverVars
    /\ UNCHANGED guardVars

\* the settings of the running application: the instance quota is the one
\* the sessions depend on
SessionSettings ==
    {s \in SettingsSpace : s.storageQuota = 0 /\ s.downloadSpeedQuota = 0}

Init == \E s \in SessionSettings : RunningInit(s)

Next ==
    \/ \E id \in RegistryIds, uris \in SUBSET Urls : AddPluginReport(id, uris)
    \/ \E id \in RegistryIds : RemovePluginCall(id)
    \/ \E id \in RegistryIds, flag \in BOOLEAN : SetEnabledCall(id, flag)
    \/ \E u \in Urls, old, new \in Indexes : ReorderObservablePluginCall(u, old, new)
    \/ \E u \in Urls : StartRecording(u)
    \/ \E l \in Labels : StopRecordingCall(l)
    \/ \E l \in Labels : Complete(l)
    \/ Shutdown

Spec == Init /\ [][Next]_vars

\* the running application with a recorder whose StopRecording may report
\* the completion before it returns
DrainNext ==
    \/ \E id \in RegistryIds, uris \in SUBSET Urls : AddPluginReport(id, uris)
    \/ \E u \in Urls : StartRecording(u)
    \/ \E l \in Labels : StopRecordingCall(l)
    \/ \E l \in Labels : Complete(l)
    \/ \E sync \in SUBSET Labels : ShutdownReporting(sync)

DrainSpec == Init /\ [][DrainNext]_vars

(***************************************************************************)
(* Detection under the Instance Quota.  Every plugin polls its sources; a  *)
(* source seen live is handed to the controller, which asks the arbiters:  *)
(* Allow starts the session, Deny leaves the observable idle until the     *)
(* next detection cycle.  In this scenario every source has one broadcast:  *)
(* it goes live once, and its session ends when it goes offline.           *)
(***************************************************************************)
QuotaUrls == Urls \cup {"u3"}

QuotaLabels == QuotaUrls \X {RegisteredNames[i] : i \in 1..Len(RegisteredNames)}

\* the limit of the scenario: one less than there are sources
InstanceLimit == Cardinality(QuotaUrls) - 1

\* a wrong Storage Quota: it denies and never evicts
StorageDecisionNeverEvicts(limit, use, recording) ==
    IF use < limit THEN "Allow" ELSE "Deny"

\* a wrong Storage Quota: a usage equal to the limit is allowed
StorageDecisionAboveOnly(limit, use, recording) ==
    IF use <= limit THEN "Allow"
    ELSE IF recording # <<>> THEN "Evict"
    ELSE "Deny"

\* Storage Quota, Evaluate(): Deny when the usage has reached the limit,
\* Evict when it exceeds the limit while sessions record, else Allow
StorageDecision(limit, use, recording) ==
    IF use < limit THEN "Allow"
    ELSE IF use > limit /\ recording # <<>> THEN "Evict"
    ELSE "Deny"

\* the sessions that record, oldest first
RecordingInOrder(order, s) == SelectSeq(order, LAMBDA l : s[l] = "recording")

\* the controller asks the Storage Quota arbiter, when it is registered
StorageQuotaAllows(arbs, s, use, recording) ==
    "storage" \in Range(arbs) => StorageDecision(s.storageQuota, use, recording) = "Allow"

\* a plugin's poll sees the source of a url live for the first time
GoLive(u) ==
    /\ Alive
    /\ source[u] = "unseen"
    /\ source' = [source EXCEPT ![u] = "live"]
    /\ UNCHANGED <<pc, exitCode, plugins, observables, pmRunning, arbiters, denied,
                   usage, lowered, startOrder>>
    /\ UNCHANGED utilVars
    /\ UNCHANGED handoverVars
    /\ UNCHANGED startupVars
    /\ UNCHANGED sessionVars
    /\ UNCHANGED guardVars

\* the source of a url goes offline: its session, if it records, is stopped
GoOffline(u) ==
    /\ Alive
    /\ source[u] = "live"
    /\ source' = [source EXCEPT ![u] = "offline"]
    /\ sess' = [l \in DOMAIN sess |->
                  IF l[1] = u THEN StopRecording(sess, l)[l] ELSE sess[l]]
    /\ stopEvents' = [l \in DOMAIN sess |->
                  IF l[1] = u /\ StopReachesProcess(sess[l])
                  THEN stopEvents[l] + 1 ELSE stopEvents[l]]
    /\ stopCalls' = [l \in DOMAIN sess |->
                  IF l[1] = u /\ sess[l] # "idle" THEN stopCalls[l] + 1 ELSE stopCalls[l]]
    /\ UNCHANGED <<pc, exitCode, plugins, observables, pmRunning, arbiters, denied,
                   usage, lowered, startOrder>>
    /\ UNCHANGED utilVars
    /\ UNCHANGED handoverVars
    /\ UNCHANGED startupVars
    /\ UNCHANGED <<awaited, shutdownCalls, snapshot, completed, completions>>
    /\ UNCHANGED guardVars

\* a detection cycle finds the source of an idle observable live: the
\* controller evaluates the arbiters; on Allow the session starts, on Deny
\* the observable stays idle and is tried again on the next cycle
DetectLive(u) ==
    /\ Alive
    /\ pmRunning
    /\ source[u] = "live"
    /\ LET p == ActivePlugin(observables, plugins, u) IN
       /\ p # NoPlugin
       /\ MayStart(sess, u)
       /\ IF /\ InstanceQuotaAllows(arbiters, settings, sess)
             /\ StorageQuotaAllows(arbiters, settings, usage,
                                   RecordingInOrder(startOrder, sess))
          THEN /\ sess' = [sess EXCEPT ![<<u, p>>] = "recording"]
               /\ startOrder' = Append(startOrder, <<u, p>>)
               /\ denied' = denied
          ELSE /\ denied' = denied \cup {u}
               /\ UNCHANGED <<sess, startOrder>>
    /\ UNCHANGED <<pc, exitCode, plugins, observables, pmRunning, arbiters, source,
                   usage, lowered>>
    /\ UNCHANGED utilVars
    /\ UNCHANGED handoverVars
    /\ UNCHANGED startupVars
    /\ UNCHANGED <<awaited, shutdownCalls, snapshot, completed, completions,
                   stopCalls, stopEvents>>
    /\ UNCHANGED guardVars

\* the capture process of a session that was stopped reports completion
StopCompleted(l) ==
    /\ sess[l] = "stopping"
    /\ Complete(l)

\* claim lists of one plugin
SingleClaims == {<<FirstRunRegistry[i].name>> : i \in 1..Len(FirstRunRegistry)}

\* the running application of a scenario: every url of urls is an observable
\* with one of the claim lists, the settings are s, the archive directory
\* holds use, no source was seen yet
ScenarioInit(urls, lists, s, use) ==
    /\ pc = "running"
    /\ exitCode = 0 - 1
    /\ plugins = FirstRunRegistry
    /\ observables \in [urls -> lists]
    /\ linked = RegistryIds
    /\ dataMounted = TRUE
    /\ dbMalformed = TRUE
    /\ dbCreated = InitializeDb(FirstRunRegistry)
    /\ fsFailed = FALSE
    /\ archiveExists = TRUE
    /\ thumbExists = TRUE
    /\ loaded = TRUE
    /\ sigterm = TRUE
    /\ pmRunning = TRUE
    /\ listening = TRUE
    /\ monitor = "started"
    /\ monitorSteps = AfterAwait
    /\ fetched = <<>>
    /\ settings = s
    /\ arbiters = SetupPluginManagerController(s)
    /\ sess = [l \in urls \X Range(RegisteredNames) |-> "idle"]
    /\ awaited = <<>>
    /\ shutdownCalls = 0
    /\ snapshot = {}
    /\ completed = {}
    /\ completions = 0
    /\ stopCalls = [l \in urls \X Range(RegisteredNames) |-> 0]
    /\ stopEvents = [l \in urls \X Range(RegisteredNames) |-> 0]
    /\ source = [u \in urls |-> "unseen"]
    /\ denied = {}
    /\ usage = use
    /\ lowered = FALSE
    /\ startOrder = <<>>
    /\ generated = <<>>
    /\ measured = <<>>
    /\ events = [u \in urls |-> <<>>]
    /\ archive = [u \in urls |-> <<>>]
    /\ now = 0
    /\ GuardIdle

\* the instance-quota scenario: the limit is InstanceLimit
QuotaInit ==
    ScenarioInit(QuotaUrls, SingleClaims,
                 [NoSettings EXCEPT !.instanceQuota = InstanceLimit], 0)

QuotaNext ==
    \/ \E u \in QuotaUrls : GoLive(u)
    \/ \E u \in QuotaUrls : GoOffline(u)
    \/ \E u \in QuotaUrls : DetectLive(u)
    \/ \E l \in QuotaLabels : StopCompleted(l)

QuotaSpec == QuotaInit /\ [][QuotaNext]_vars

\* every plugin keeps polling (a live source is handed to the controller
\* again and again) and a capture process that was stopped reports its
\* completion
FairQuotaSpec ==
    /\ QuotaSpec
    /\ \A u \in QuotaUrls : WF_vars(DetectLive(u))
    /\ \A l \in QuotaLabels : WF_vars(StopCompleted(l))

(***************************************************************************)
(* The Storage Quota.  The resource monitor publishes samples of the       *)
(* archive directory's usage, the operator changes the limit at runtime,   *)
(* and the arbiter is evaluated again after each of these.                 *)
(***************************************************************************)
StorageLimits == 0..MaxUsage

\* the resource monitor publishes a sample: the captures that run have
\* written to the archive directory, or nothing has changed
MonitorUpdate ==
    /\ Alive
    /\ monitor = "started"
    /\ usage < MaxUsage
    /\ Records(sess) # {}
    /\ usage' = usage + 1
    /\ UNCHANGED <<pc, exitCode, plugins, observables, pmRunning, arbiters>>
    /\ UNCHANGED startupVars
    /\ UNCHANGED sessionVars
    /\ UNCHANGED <<source, denied, lowered, startOrder>>
    /\ UNCHANGED utilVars
    /\ UNCHANGED handoverVars
    /\ UNCHANGED guardVars

\* the operator sets the storage limit: a limit of zero removes the
\* arbiter, a positive limit registers it if it is not registered
SetStorageQuota(limit) ==
    /\ Alive
    /\ limit # settings.storageQuota
    /\ settings' = [settings EXCEPT !.storageQuota = limit]
    /\ arbiters' = IF ~QuotaEnabled(limit)
                   THEN SelectSeq(arbiters, LAMBDA k : k # "storage")
                   ELSE IF "storage" \in Range(arbiters) THEN arbiters
                   ELSE Append(arbiters, "storage")
    /\ lowered' = /\ QuotaEnabled(limit)
                  /\ limit < settings.storageQuota
                  /\ limit < usage
                  /\ RecordingInOrder(startOrder, sess) # <<>>
    /\ UNCHANGED <<pc, exitCode, plugins, observables, pmRunning>>
    /\ UNCHANGED <<dataMounted, dbMalformed, dbCreated, fsFailed, archiveExists,
                   thumbExists, loaded, sigterm, listening, monitor, monitorSteps, fetched,
                   linked>>
    /\ UNCHANGED sessionVars
    /\ UNCHANGED <<source, denied, usage, startOrder>>
    /\ UNCHANGED utilVars
    /\ UNCHANGED handoverVars
    /\ UNCHANGED guardVars

\* the Storage Quota arbiter is evaluated (after a sample, a session start or
\* stop, a change of the limit) and decides Evict: the controller calls
\* StopRecording for the session started last
EvaluateStorageQuota ==
    /\ Alive
    /\ "storage" \in Range(arbiters)
    /\ LET recording == RecordingInOrder(startOrder, sess) IN
       /\ StorageDecision(settings.storageQuota, usage, recording) = "Evict"
       /\ LET l == recording[Len(recording)] IN
          /\ sess' = StopRecording(sess, l)
          /\ stopEvents' = [stopEvents EXCEPT ![l] = @ + 1]
          /\ stopCalls' = [stopCalls EXCEPT ![l] = @ + 1]
    /\ UNCHANGED <<pc, exitCode, plugins, observables, pmRunning, arbiters>>
    /\ UNCHANGED startupVars
    /\ UNCHANGED <<awaited, shutdownCalls, snapshot, completed, completions>>
    /\ UNCHANGED extVars

\* the storage scenario: a positive storage limit, some usage already there
StorageInit ==
    \E limit \in StorageLimits \ {0}, use \in 0..MaxUsage :
        ScenarioInit(Urls, SingleClaims, [NoSettings EXCEPT !.storageQuota = limit], use)

StorageNext ==
    \/ \E u \in Urls : GoLive(u)
    \/ \E u \in Urls : GoOffline(u)
    \/ \E u \in Urls : DetectLive(u)
    \/ \E l \in Labels : StopCompleted(l)
    \/ MonitorUpdate
    \/ \E limit \in StorageLimits : SetStorageQuota(limit)
    \/ EvaluateStorageQuota

StorageSpec == StorageInit /\ [][StorageNext]_vars

\* the arbiter is evaluated after every event that concerns it, and a
\* capture process that was stopped reports its completion
FairStorageSpec ==
    /\ StorageSpec
    /\ WF_vars(EvaluateStorageQuota)
    /\ \A l \in Labels : WF_vars(StopCompleted(l))

(***************************************************************************)
(* Util: GenFilename, FileSize.  A text is a sequence of characters or     *)
(* tokens; a url is its hostname and the segments of its pathname.         *)
(***************************************************************************)
Hostnames == {<<"s">>, <<"s", "_", "x">>}

Segments == {<<"y">>, <<"x", "_", "y">>}

\* urls with a pathname of one segment (https://host/user)
UtilUrls == [hostname : Hostnames, path : {<<seg>> : seg \in Segments}]

Times == 0..MaxTime

RandomBytes == [1..SuffixBytes -> 0..MaxByte]

\* UsernameFromUrl: pathname.split('/')[1], the first segment after the
\* leading slash (empty for the pathname '/')
UsernameFromUrl(url) == IF url.path = <<>> THEN <<>> ELSE url.path[1]

\* dayjs().format('DDMMYYYYHHmmss') of the clock value t: the second
Format(t) == t \div TicksPerSecond

\* Buffer.toString('hex'): two digits per byte
RECURSIVE ToHex(_)
ToHex(bytes) ==
    IF bytes = <<>> THEN <<>>
    ELSE <<Head(bytes) \div HexBase, Head(bytes) % HexBase>> \o ToHex(Tail(bytes))

\* a wrong GenFilename: the name has no random suffix
GenFilenameWithoutSuffix(url, t, bytes) ==
    url.hostname \o <<"_">> \o UsernameFromUrl(url) \o <<"_", Format(t), ".mp4">>

\* GenFilename(url) called at time t with the random bytes drawn:
\* `${hostname}_${username}_${timestamp}_${unique}.mp4`
GenFilename(url, t, bytes) ==
    url.hostname \o <<"_">> \o UsernameFromUrl(url) \o <<"_", Format(t), "_">>
        \o ToHex(bytes) \o <<".mp4">>

\* what lstat gives for a file: it fails, or a stat with the size
StatResults ==
    [ok : {FALSE}, size : {0}] \cup [ok : {TRUE}, size : 0..MaxFileSize]

\* AIE(lstat, filename): null when lstat throws
AIE(r) == IF r.ok THEN [null |-> FALSE, size |-> r.size]
                  ELSE [null |-> TRUE, size |-> 0]

\* FileSize: stat && stat.size || -1
FileSize(r) ==
    LET stat == AIE(r) IN
    IF ~stat.null /\ stat.size # 0 THEN stat.size ELSE 0 - 1

\* a recording session asks for its output filename
GenFilenameCall(url, t, bytes) ==
    /\ Len(generated) < 2
    /\ \A i \in 1..Len(generated) : generated[i].time <= t
    /\ generated' = Append(generated, [url |-> url, time |-> t, bytes |-> bytes,
                                       name |-> GenFilename(url, t, bytes)])
    /\ UNCHANGED <<pc, exitCode, plugins, observables, pmRunning, arbiters, measured>>
    /\ UNCHANGED startupVars
    /\ UNCHANGED sessionVars
    /\ UNCHANGED quotaVars
    /\ UNCHANGED handoverVars
    /\ UNCHANGED guardVars

\* the size of a finished capture is measured
FileSizeCall(r) ==
    /\ measured = <<>>
    /\ measured' = <<[stat |-> r, size |-> FileSize(r)]>>
    /\ UNCHANGED <<pc, exitCode, plugins, observables, pmRunning, arbiters, generated>>
    /\ UNCHANGED startupVars
    /\ UNCHANGED sessionVars
    /\ UNCHANGED quotaVars
    /\ UNCHANGED handoverVars
    /\ UNCHANGED guardVars

UtilInit == RunningInit(NoSettings)

UtilNext ==
    \/ \E url \in UtilUrls, t \in Times, bytes \in RandomBytes : GenFilenameCall(url, t, bytes)
    \/ \E r \in StatResults : FileSizeCall(r)

UtilSpec == UtilInit /\ [][UtilNext]_vars

(***************************************************************************)
(* router.beforeEach: the guard of a navigation.  It runs to its first     *)
(* await, and goes on when the awaited call of the store settles; the      *)
(* store's access level changes by itself (a login, an upgrade pushed by   *)
(* the server, a logout).  An await that throws, by a timeout or an error, *)
(* ends in the catch block.                                                *)
(***************************************************************************)
\* to.meta?.access <= access.access: false when the route declares no level
AtMost(required, current) == required # NoLevel /\ required <= current

\* a wrong test: the guard never finds the required level above the current
NeverAbove(required, current) == FALSE

\* to.meta?.access > access.access: false when the route declares no level
Above(required, current) == required # NoLevel /\ required > current

\* next(arg): "" stands for the call without an argument
CallNext(arg) ==
    /\ nextCalls' = Append(nextCalls, arg)
    /\ accessAtNext' = access
    /\ guardAt' = "done"

\* the router calls the guard for a navigation to the route
Navigate(to) ==
    /\ Alive
    /\ guardAt \in {"idle", "done"}
    /\ navigations < MaxNavigations
    /\ navigations' = navigations + 1
    /\ guardTo' = to
    /\ passphrase' = "none"
    /\ awaitFailed' = "none"
    /\ IF to.path = "/dashboard"
       THEN /\ nextCalls' = <<"">>
            /\ accessAtNext' = access
            /\ guardAt' = "done"
       ELSE /\ nextCalls' = <<>>
            /\ accessAtNext' = NoLevel
            /\ guardAt' = "init"
    /\ UNCHANGED access
    /\ UNCHANGED <<pc, exitCode, plugins, observables, pmRunning, arbiters>>
    /\ UNCHANGED startupVars
    /\ UNCHANGED sessionVars
    /\ UNCHANGED <<quotaVars, utilVars, handoverVars>>

\* access.access changes
AccessChanges(level) ==
    /\ Alive
    /\ level # access
    /\ access' = level
    /\ UNCHANGED <<guardAt, guardTo, nextCalls, navigations, passphrase,
                   accessAtNext, awaitFailed>>
    /\ UNCHANGED <<pc, exitCode, plugins, observables, pmRunning, arbiters>>
    /\ UNCHANGED startupVars
    /\ UNCHANGED sessionVars
    /\ UNCHANGED <<quotaVars, utilVars, handoverVars>>

\* await app.AwaitInitialization(1000) settles
InitializationSettles(ok) ==
    /\ guardAt = "init"
    /\ IF ~ok
       THEN CallNext("/") /\ awaitFailed' = "init"
       ELSE /\ awaitFailed' = awaitFailed
            /\ IF AtMost(guardTo.access, access)
               THEN CallNext("")
               ELSE /\ guardAt' = "upgrade"
                    /\ UNCHANGED <<nextCalls, accessAtNext>>
    /\ UNCHANGED <<guardTo, access, navigations, passphrase>>
    /\ UNCHANGED <<pc, exitCode, plugins, observables, pmRunning, arbiters>>
    /\ UNCHANGED startupVars
    /\ UNCHANGED sessionVars
    /\ UNCHANGED <<quotaVars, utilVars, handoverVars>>

\* await access.AwaitAccessUpgrade(500) settles
AccessUpgradeSettles(ok) ==
    /\ guardAt = "upgrade"
    /\ IF ~ok
       THEN CallNext("/") /\ awaitFailed' = "upgrade"
       ELSE /\ awaitFailed' = awaitFailed
            /\ IF Above(guardTo.access, access) /\ guardTo.path # "/dashboard"
               THEN /\ guardAt' = "passphrase"
                    /\ UNCHANGED <<nextCalls, accessAtNext>>
               ELSE CallNext("")
    /\ UNCHANGED <<guardTo, access, navigations, passphrase>>
    /\ UNCHANGED <<pc, exitCode, plugins, observables, pmRunning, arbiters>>
    /\ UNCHANGED startupVars
    /\ UNCHANGED sessionVars
    /\ UNCHANGED <<quotaVars, utilVars, handoverVars>>

\* await access.RequestPassphrase() settles: true, false, or it throws
PassphraseSettles(result) ==
    /\ guardAt = "passphrase"
    /\ IF result = "thrown"
       THEN /\ CallNext("/")
            /\ awaitFailed' = "passphrase"
            /\ UNCHANGED passphrase
       ELSE /\ passphrase' = result
            /\ awaitFailed' = awaitFailed
            /\ IF result = "granted" THEN CallNext("") ELSE CallNext("/")
    /\ UNCHANGED <<guardTo, access, navigations>>
    /\ UNCHANGED <<pc, exitCode, plugins, observables, pmRunning, arbiters>>
    /\ UNCHANGED startupVars
    /\ UNCHANGED sessionVars
    /\ UNCHANGED <<quotaVars, utilVars, handoverVars>>

GuardInit == RunningInit(NoSettings)

GuardNext ==
    \/ \E to \in Routes : Navigate(to)
    \/ \E level \in AccessLevels : AccessChanges(level)
    \/ \E ok \in BOOLEAN : InitializationSettles(ok)
    \/ \E ok \in BOOLEAN : AccessUpgradeSettles(ok)
    \/ \E result \in {"granted", "refused", "thrown"} : PassphraseSettles(result)

GuardSpec == GuardInit /\ [][GuardNext]_vars

(***************************************************************************)
(* The hand-over of an observable from one plugin to the next: SetEnabled  *)
(* re-evaluates every observable whose active plugin it changes, the       *)
(* session manager stops the session of the plugin that is no longer       *)
(* active and, when the observable is idle again, starts the session of    *)
(* the new active plugin under a filename of its own.                      *)
(***************************************************************************)
HandoverUrls == {"u1"}

\* claim lists of two plugins, in both orders
PairClaims ==
    {l \in [1..2 -> Range(RegisteredNames)] : l[1] # l[2]}

\* the url of an observable: https://s/<u>
UrlOf(u) == [hostname |-> <<"s">>, path |-> <<<<u>>>>]

\* the file of the session of an observable: the one of its last start event
RECURSIVE LastStart(_)
LastStart(log) ==
    IF log = <<>> THEN <<>>
    ELSE IF log[Len(log)].kind = "start" THEN log[Len(log)].file
    ELSE LastStart(SubSeq(log, 1, Len(log) - 1))

\* a wrong re-evaluation: the session of the plugin that was active goes on
KeepsSessionOfDisabled(obs, ps, ps2, s, l) == FALSE

\* whether the re-evaluation after a change of the registry from ps to ps2
\* stops the session l: its plugin was the active one of its observable and
\* is no longer
StopsOnReevaluation(obs, ps, ps2, s, l) ==
    /\ ActivePlugin(obs, ps, l[1]) = l[2]
    /\ ActivePlugin(obs, ps2, l[1]) # l[2]
    /\ s[l] # "idle"

\* SetEnabled(id, FALSE) by the operator, with the re-evaluation of the
\* observables it delegates to the dispatcher
DisablePlugin(id) ==
    /\ Alive
    /\ \E i \in 1..Len(plugins) : plugins[i].id = id /\ plugins[i].enabled
    /\ plugins' = SetEnabled(plugins, id, FALSE)
    /\ LET stopped == {l \in DOMAIN sess :
                          StopsOnReevaluation(observables, plugins, plugins', sess, l)}
       IN
       /\ sess' = [l \in DOMAIN sess |->
                     IF l \in stopped THEN StopRecording(sess, l)[l] ELSE sess[l]]
       /\ stopEvents' = [l \in DOMAIN sess |->
                     IF l \in stopped /\ StopReachesProcess(sess[l])
                     THEN stopEvents[l] + 1 ELSE stopEvents[l]]
       /\ stopCalls' = [l \in DOMAIN sess |->
                     IF l \in stopped THEN stopCalls[l] + 1 ELSE stopCalls[l]]
       /\ events' = [u \in DOMAIN events |->
                     IF \E l \in stopped : l[1] = u /\ StopReachesProcess(sess[l])
                     THEN Append(events[u],
                                 [kind |-> "stop",
                                  plugin |-> ActivePlugin(observables, plugins, u),
                                  file |-> LastStart(events[u]),
                                  time |-> now, bytes |-> <<>>])
                     ELSE events[u]]
    /\ UNCHANGED <<pc, exitCode, observables, pmRunning, arbiters>>
    /\ UNCHANGED startupVars
    /\ UNCHANGED <<awaited, shutdownCalls, snapshot, completed, completions>>
    /\ UNCHANGED quotaVars
    /\ UNCHANGED utilVars
    /\ UNCHANGED <<archive, now>>
    /\ UNCHANGED guardVars

\* the session manager starts the session of the active plugin of an idle
\* observable, under the filename GenFilename gives now
HandoverStart(u, bytes) ==
    /\ Alive
    /\ pmRunning
    /\ LET p == ActivePlugin(observables, plugins, u) IN
       /\ p # NoPlugin
       /\ MayStart(sess, u)
       /\ sess' = [sess EXCEPT ![<<u, p>>] = "recording"]
       /\ startOrder' = Append(startOrder, <<u, p>>)
       /\ events' = [events EXCEPT ![u] =
                        Append(@, [kind |-> "start", plugin |-> p,
                                   file |-> GenFilename(UrlOf(u), now, bytes),
                                   time |-> now, bytes |-> bytes])]
    /\ UNCHANGED <<pc, exitCode, plugins, observables, pmRunning, arbiters>>
    /\ UNCHANGED startupVars
    /\ UNCHANGED <<awaited, shutdownCalls, snapshot, completed, completions,
                   stopCalls, stopEvents>>
    /\ UNCHANGED <<source, denied, usage, lowered>>
    /\ UNCHANGED utilVars
    /\ UNCHANGED <<archive, now>>
    /\ UNCHANGED guardVars

\* the capture process of a stopped session reports completion: the archive
\* record of its file is finalized and the observable is idle again
CaptureCompleted(l) ==
    /\ Alive
    /\ sess[l] = "stopping"
    /\ sess' = [sess EXCEPT ![l] = "idle"]
    /\ stopCalls' = [stopCalls EXCEPT ![l] = 0]
    /\ stopEvents' = [stopEvents EXCEPT ![l] = 0]
    /\ startOrder' = SelectSeq(startOrder, LAMBDA x : x # l)
    /\ archive' = [archive EXCEPT ![l[1]] = Append(@, LastStart(events[l[1]]))]
    /\ UNCHANGED <<pc, exitCode, plugins, observables, pmRunning, arbiters>>
    /\ UNCHANGED startupVars
    /\ UNCHANGED <<awaited, shutdownCalls, snapshot, completed, completions>>
    /\ UNCHANGED <<source, denied, usage, lowered>>
    /\ UNCHANGED utilVars
    /\ UNCHANGED <<events, now>>
    /\ UNCHANGED guardVars

\* time passes
Tick ==
    /\ now < MaxTime
    /\ now' = now + 1
    /\ UNCHANGED <<pc, exitCode, plugins, observables, pmRunning, arbiters>>
    /\ UNCHANGED startupVars
    /\ UNCHANGED sessionVars
    /\ UNCHANGED quotaVars
    /\ UNCHANGED utilVars
    /\ UNCHANGED <<events, archive>>
    /\ UNCHANGED guardVars

\* the scenario: one observable claimed by two enabled plugins, no session yet
HandoverInit == ScenarioInit(HandoverUrls, PairClaims, NoSettings, 0)

HandoverNext ==
    \/ \E id \in RegistryIds : DisablePlugin(id)
    \/ \E u \in HandoverUrls, bytes \in RandomBytes : HandoverStart(u, bytes)
    \/ \E l \in HandoverUrls \X Range(RegisteredNames) : CaptureCompleted(l)
    \/ Tick

HandoverSpec == HandoverInit /\ [][HandoverNext]_vars

\* a capture process that was stopped reports its completion, and the
\* session manager acts on the dispatcher's notification
FairHandoverSpec ==
    /\ HandoverSpec
    /\ \A l \in HandoverUrls \X Range(RegisteredNames) : WF_vars(CaptureCompleted(l))
    /\ \A u \in HandoverUrls : WF_vars(\E bytes \in RandomBytes : HandoverStart(u, bytes))

(***************************************************************************)
(* Properties.                                                             *)
(***************************************************************************)
UrlSessions(u) == {l \in DOMAIN sess : l[1] = u /\ sess[l] # "idle"}

\* C1: when Shutdown is entered with N records, the process exits (code 0)
\* only when exactly N completion notifications have been observed since
\* Shutdown was first entered, in whatever order the sessions complete.
ShutdownDrainsExactlyN ==
    exitCode = 0 => completions = Cardinality(snapshot)

\* C1 witness: a shutdown with two sessions has drained and exited.
ShutdownDrainedTwo ==
    exitCode = 0 /\ Cardinality(snapshot) = 2 /\ completions = 2

\* C2: once Shutdown was entered, every session that was in the records at
\* that moment has been asked to stop (none of them is still recording, each
\* pending one has had a StopRecording call), and the process has not exited
\* while one of them has not reported completion: with a session that never
\* completes the exit is never reached.
ShutdownStopsAllAndWaits ==
    shutdownCalls > 0 =>
        /\ \A l \in snapshot \ completed : sess[l] = "stopping" /\ stopCalls[l] >= 1
        /\ (snapshot \ completed # {}) => exitCode = 0 - 1
        /\ exitCode = 0 => snapshot \subseteq completed

\* C2 witness: shutdown is waiting: one session of the snapshot has
\* completed, another is still stopping, the process lives.
ShutdownWaitsForPending ==
    /\ shutdownCalls > 0
    /\ exitCode = 0 - 1
    /\ completed # {}
    /\ \E l \in snapshot \ completed : sess[l] = "stopping"

\* C3: for every observable the dialog marks at most one plugin of the list
\* as active, and the active plugin is the enabled plugin of the list with
\* no enabled plugin before it; none is active exactly when no plugin of
\* the list is enabled.
ActiveIsFirstEnabledClaimant ==
    \A u \in Urls :
        LET list   == Plugins(observables, u)
            a      == ActivePlugin(observables, plugins, u)
            marked == {i \in 1..Len(list) : list[i] = a}
        IN  /\ Cardinality(marked) <= 1
            /\ (a = NoPlugin) <=> (\A i \in 1..Len(list) : ~PluginEnabled(plugins, list[i]))
            /\ \A i \in marked :
                  /\ PluginEnabled(plugins, list[i])
                  /\ \A j \in 1..(i - 1) : ~PluginEnabled(plugins, list[j])

\* C3 witness: an observable with two plugins whose first is disabled: the
\* second is the active one; another observable has no enabled plugin.
SecondPluginActive ==
    \E u, v \in Urls :
        /\ Len(Plugins(observables, u)) = 2
        /\ ~PluginEnabled(plugins, observables[u][1])
        /\ ActivePlugin(observables, plugins, u) = observables[u][2]
        /\ Len(Plugins(observables, v)) = 1
        /\ ActivePlugin(observables, plugins, v) = NoPlugin

\* C4: after the registrations and LoadData no two registered plugins have
\* the same id.
PluginIdsUnique ==
    loaded => \A i, j \in 1..Len(plugins) : i # j => plugins[i].id # plugins[j].id

\* C5: no observable has more than one session in the records.
OneSessionPerObservable ==
    \A u \in Urls : Cardinality(UrlSessions(u)) <= 1

\* C5 witness: both observables have a session, one of them still stopping
\* for a plugin that is no longer the active one of its observable.
SessionOutlivesActivePlugin ==
    \E u, v \in Urls :
        /\ u # v
        /\ UrlSessions(v) # {}
        /\ \E l \in UrlSessions(u) :
              /\ sess[l] = "stopping"
              /\ ActivePlugin(observables, plugins, u) \notin {NoPlugin, l[2]}

\* C6: StopRecording called again for a session that is being stopped sends
\* no second stop to its capture process (one stop event per session), and
\* called for a session that is not in the records it changes nothing.
StopRecordingIdempotent ==
    \A l \in Labels :
        /\ stopEvents[l] <= 1
        /\ stopCalls[l] >= 1 => stopEvents[l] = 1 /\ sess[l] = "stopping"
        /\ sess[l] = "idle" => stopEvents[l] = 0

\* C6 witness: StopRecording was called twice for a session, one stop event.
StoppedTwiceOneEvent ==
    \E l \in Labels : stopCalls[l] >= 2 /\ stopEvents[l] = 1

\* a step of Reorder(ids)
ReorderStep == \E ids \in IdLists : ReorderCall(ids)

\* a step of ReorderObservablePlugin(u, old, new)
ReorderObservableStep(u) ==
    \E old, new \in Indexes : ReorderObservablePluginCall(u, old, new)

\* C7: a Reorder of the registry leaves every observable's plugin list, and
\* with it every observable's active plugin, as it was; a
\* ReorderObservablePlugin(uri, ..) leaves the registry and the list and
\* active plugin of every other observable as they were.
OrdersIndependent ==
    [][/\ ReorderStep =>
            /\ observables' = observables
            /\ \A u \in Urls : ActivePlugin(observables', plugins', u)
                                  = ActivePlugin(observables, plugins, u)
       /\ \A u \in Urls : ReorderObservableStep(u) =>
            /\ plugins' = plugins
            /\ DOMAIN observables' = DOMAIN observables
            /\ \A v \in DOMAIN observables \ {u} :
                  /\ observables'[v] = observables[v]
                  /\ ActivePlugin(observables', plugins', v)
                        = ActivePlugin(observables, plugins, v)]_vars

\* C7 witness: the registry was reordered and one observable's list was
\* reordered: the two observables list the same plugins in opposite orders.
OrdersDiffer ==
    /\ plugins[1].name # FirstRunRegistry[1].name
    /\ \E u, v \in DOMAIN observables :
          /\ Len(observables[u]) = 2
          /\ Len(observables[v]) = 2
          /\ observables[u][1] = observables[v][2]
          /\ observables[u][2] = observables[v][1]

QuotaLimit(s, kind) ==
    IF kind = "storage" THEN s.storageQuota
    ELSE IF kind = "instance" THEN s.instanceQuota
    ELSE s.downloadSpeedQuota

\* C8: once the controller is set up, an arbiter of a kind is registered
\* exactly when the configured limit of the kind is greater than zero, and
\* no kind is registered twice.
ArbiterIffPositiveLimit ==
    monitor = "started" =>
        \A k \in QuotaKinds :
            /\ (k \in Range(arbiters)) <=> (QuotaLimit(settings, k) > 0)
            /\ Cardinality({i \in 1..Len(arbiters) : arbiters[i] = k}) <= 1

\* C8 witness: set up with a positive, a zero and a negative limit.
ArbitersMixed ==
    /\ monitor = "started"
    /\ settings.storageQuota > 0
    /\ settings.instanceQuota = 0
    /\ settings.downloadSpeedQuota < 0
    /\ arbiters = <<"storage">>

\* Run is past its IsDataMounted check
DataChecked == pc \notin {"ctor", "run"}

\* C9: when Run found the data directory absent, or PrepareFileSystem threw,
\* the process has exited with code 1 and LoadData has not run, the plugin
\* manager was not started and the server does not listen.
StartupFailureExits ==
    ((DataChecked /\ ~dataMounted) \/ fsFailed) =>
        /\ pc = "exited"
        /\ exitCode = 1
        /\ ~loaded
        /\ ~pmRunning
        /\ ~listening

\* C9 witness: the second mkdir threw after the archive folder was made.
FsFailureExited ==
    fsFailed /\ archiveExists /\ ~thumbExists /\ exitCode = 1

\* C10, as stated: with a storage found not initialized or malformed the
\* process does not go on to load and to listen.
MalformedStateIsFatal ==
    dbMalformed => ~loaded /\ ~listening

\* C10, amended: a storage found not initialized or malformed is initialized
\* with one row per registered plugin and Run goes on with these rows (every
\* registered plugin gets its row's id and is enabled); Run exits only for an
\* absent data directory or a failed PrepareFileSystem.
MalformedStateIsInitialized ==
    /\ (dbMalformed /\ DataChecked /\ pc # "db") =>
          /\ Len(dbCreated) = Len(RegisteredNames)
          /\ \A i \in 1..Len(dbCreated) : dbCreated[i].name = RegisteredNames[i]
          /\ loaded => \A i \in 1..Len(plugins) :
                          /\ plugins[i].enabled
                          /\ \E k \in 1..Len(dbCreated) :
                                /\ dbCreated[k].name = plugins[i].name
                                /\ dbCreated[k].id = plugins[i].id
    /\ pc = "exited" => exitCode = 1 /\ (~dataMounted \/ fsFailed)

\* C10 witness: the storage was malformed and the server listens.
MalformedAndListening ==
    dbMalformed /\ loaded /\ listening

\* the instance arbiter has a free slot: fewer records than the limit
SlotFree == Cardinality(Records(sess)) < settings.instanceQuota

\* C11: with the Instance Quota at its limit of two and three sources live,
\* there are never more than two sessions; a detection that is denied
\* leaves its observable idle; and a denied source that is still live when
\* a session has stopped (a slot is free) is recording later, unless it went
\* offline first.
DeniedSourceRecordsLater ==
    /\ [](Cardinality(Records(sess)) <= InstanceLimit)
    /\ [][\A u \in QuotaUrls :
            (u \in denied' /\ u \notin denied) =>
                ObservableIdle(sess', u) /\ sess' = sess]_vars
    /\ \A u \in QuotaUrls :
          (u \in denied /\ source[u] = "live" /\ SlotFree)
              ~> (UrlSessions(u) # {} \/ source[u] # "live")

\* C11 witness: the source that was denied records, with two sessions, after
\* another source went offline.
DeniedSourceRecords ==
    \E u, v \in QuotaUrls :
        /\ u \in denied
        /\ \E l \in UrlSessions(u) : sess[l] = "recording"
        /\ source[v] = "offline"
        /\ Cardinality(Records(sess)) = InstanceLimit

\* the Storage Quota arbiter is registered and the usage has reached its limit
StorageAtLimit ==
    QuotaEnabled(settings.storageQuota) /\ usage >= settings.storageQuota

\* C12: while the sampled usage is at or above the storage limit, the
\* Storage Quota's Evaluate is not Allow, and no session starts.
NoAllowAtStorageLimit ==
    /\ [](StorageAtLimit =>
            /\ "storage" \in Range(arbiters)
            /\ StorageDecision(settings.storageQuota, usage,
                               RecordingInOrder(startOrder, sess)) # "Allow")
    /\ [][StorageAtLimit =>
            \A l \in DOMAIN sess : sess'[l] = "recording" => sess[l] = "recording"]_vars

\* C12 witness: with the usage at the limit a live source was denied and is
\* idle, while another session still records.
DeniedAtStorageLimit ==
    \E u \in Urls :
        /\ StorageAtLimit
        /\ usage = settings.storageQuota
        /\ u \in denied
        /\ source[u] = "live"
        /\ ObservableIdle(sess, u)
        /\ RecordingInOrder(startOrder, sess) # <<>>

\* the usage exceeds the limit the arbiter is registered with
OverStorageLimit ==
    "storage" \in Range(arbiters) /\ usage > settings.storageQuota

FilenamesUnique ==
    \A i, j \in 1..Len(generated) : i # j => generated[i].name # generated[j].name

\* C15, amended: two sessions get the same output filename only if they
\* start within the same second and draw the same three random bytes (and
\* their hostname and user read the same text); two captures of one url
\* started in the same second get different filenames exactly when their
\* random bytes differ.
FilenamesDifferBySecondOrSuffix ==
    \A i, j \in 1..Len(generated) :
        LET a == generated[i]
            b == generated[j]
        IN  /\ a.name = b.name =>
                  /\ Format(a.time) = Format(b.time)
                  /\ a.bytes = b.bytes
                  /\ a.url.hostname \o <<"_">> \o UsernameFromUrl(a.url)
                        = b.url.hostname \o <<"_">> \o UsernameFromUrl(b.url)
            /\ (a.url = b.url /\ Format(a.time) = Format(b.time)) =>
                  (a.name = b.name <=> a.bytes = b.bytes)
            /\ Format(a.time) # Format(b.time) => a.name # b.name

\* C15 witness: two captures of one url started in the same second, at
\* different times, with different random bytes and different filenames.
SameSecondDifferentNames ==
    /\ Len(generated) = 2
    /\ generated[1].url = generated[2].url
    /\ generated[1].time # generated[2].time
    /\ Format(generated[1].time) = Format(generated[2].time)
    /\ generated[1].bytes # generated[2].bytes
    /\ generated[1].name # generated[2].name

\* C20: FileSize gives the size of every file whose stat succeeds, a size
\* of zero included, and -1 exactly when the stat fails.
FileSizeIsSizeOrMinusOne ==
    \A i \in 1..Len(measured) :
        /\ measured[i].stat.ok => measured[i].size = measured[i].stat.size
        /\ measured[i].size = 0 - 1 <=> ~measured[i].stat.ok

\* plugin A (the first of the list of u) was recording u and was disabled,
\* and plugin B (the second, enabled) records u
HandedOver(u) ==
    /\ Len(events[u]) >= 1
    /\ events[u][1].plugin = observables[u][1]
    /\ ~PluginEnabled(plugins, observables[u][1])
    /\ PluginEnabled(plugins, observables[u][2])
    /\ sess[<<u, observables[u][2]>>] = "recording"

\* the events and the archive of a hand-over: A's start, one stop of A's
\* session, one start of B's session; one archive record, of A's file
HandoverEvents(u) ==
    /\ Len(events[u]) = 3
    /\ events[u][1].kind = "start" /\ events[u][1].plugin = observables[u][1]
    /\ events[u][2].kind = "stop" /\ events[u][2].plugin = observables[u][1]
    /\ events[u][2].file = events[u][1].file
    /\ events[u][3].kind = "start" /\ events[u][3].plugin = observables[u][2]
    /\ archive[u] = <<events[u][1].file>>

\* C14, as stated: when A was disabled while recording and B has taken
\* over, there was exactly one stop event (A's) and then one start event
\* (B's), B's file is not A's, and the archive has gained exactly one record,
\* A's capture.
HandoverUnderNewFilename ==
    \A u \in HandoverUrls :
        HandedOver(u) =>
            /\ HandoverEvents(u)
            /\ events[u][3].file # events[u][1].file

\* A records u, B is the enabled second claimant, and A is disabled
DisabledWhileRecording(u) ==
    /\ Len(events[u]) >= 1
    /\ events[u][1].plugin = observables[u][1]
    /\ ~PluginEnabled(plugins, observables[u][1])
    /\ PluginEnabled(plugins, observables[u][2])

\* C14, amended: disabling A while it records promotes B: there is exactly
\* one stop event (A's session), then exactly one start event (B's session),
\* and the archive gains exactly one record, A's partial capture; B's
\* filename differs from A's unless both sessions started in the same second
\* and drew the same random bytes; and B's session does start, unless B is
\* disabled too.
HandoverStopsThenStarts ==
    /\ [](\A u \in HandoverUrls :
            HandedOver(u) =>
                /\ HandoverEvents(u)
                /\ events[u][3].file = events[u][1].file =>
                      /\ Format(events[u][3].time) = Format(events[u][1].time)
                      /\ events[u][3].bytes = events[u][1].bytes)
    /\ \A u \in HandoverUrls :
          DisabledWhileRecording(u)
              ~> (HandedOver(u) \/ ~PluginEnabled(plugins, observables[u][2]))

\* C14 witness: B has taken over in a later second than A started, with the
\* same random bytes and so under another filename.
HandedOverLater ==
    \E u \in HandoverUrls :
        /\ HandedOver(u)
        /\ Len(events[u]) = 3
        /\ events[u][3].bytes = events[u][1].bytes
        /\ events[u][3].file # events[u][1].file
        /\ archive[u] = <<events[u][1].file>>

\* C16: once every session that was in the records when Shutdown began has
\* reported its completion, the shutdown has reached process.exit, also
\* when a completion was reported during the StopRecording call.
DrainedShutdownExits ==
    (shutdownCalls > 0 /\ snapshot \subseteq completed) => exitCode = 0

\* C17: when Shutdown was entered a second time while sessions of the first
\* were still stopping, the process has not exited as long as a session that
\* was in the records at the first trigger has not reported completion.
SecondShutdownWaits ==
    shutdownCalls >= 2 =>
        /\ (snapshot \ completed # {}) => exitCode = 0 - 1
        /\ exitCode = 0 => completions = Cardinality(snapshot)

\* C17 witness: the second Shutdown found a session still stopping and
\* registered its own listener; the process exited after both sessions of
\* the first trigger had completed.
SecondShutdownDrained ==
    /\ shutdownCalls = 2
    /\ Len(awaited) = 2
    /\ Cardinality(snapshot) = 2
    /\ snapshot \subseteq completed
    /\ exitCode = 0

\* the position of the first call of the name in the continuation's calls, 0
\* when it was not made
FirstCall(name) ==
    IF \E i \in 1..Len(monitorSteps) : monitorSteps[i] = name
    THEN CHOOSE i \in 1..Len(monitorSteps) :
             /\ monitorSteps[i] = name
             /\ \A j \in 1..(i - 1) : monitorSteps[j] # name
    ELSE 0

\* C18: the continuation of StartResourceMonitor acts only when Run has
\* opened the storage and constructed the plugin-manager listener, and the
\* monitor is started only after the broadcaster was subscribed and the
\* arbiters of the fetched settings were registered.
MonitorStartsAfterRun ==
    /\ (monitorSteps # <<>> \/ arbiters # <<>> \/ monitor = "started") =>
           pc = "running" /\ dataMounted /\ ~fsFailed /\ loaded /\ listening
    /\ monitor = "started" =>
           /\ FirstCall("Start") > 0
           /\ FirstCall("OnUpdate.On") \in 1..(FirstCall("Start") - 1)
           /\ FirstCall("SetupPluginManagerController") \in 1..(FirstCall("Start") - 1)
           /\ arbiters = SetupPluginManagerController(settings)

\* C18 witness: the continuation ran after a Run that had to initialize the
\* storage, and registered the download-speed arbiter on the listener.
MonitorStartedOnFreshStorage ==
    /\ monitor = "started"
    /\ dbMalformed
    /\ \E i \in 1..Len(arbiters) : arbiters[i] = "downloadSpeed"

\* every name of the list is the name of a registered plugin
AllRegistered(names) ==
    \A i \in 1..Len(names) : names[i] \in Range(RegisteredNames)

\* C19: after LoadData a persisted observable is an observable of the
\* application exactly when every plugin name of its row is registered; its
\* plugin list is then the persisted list in the persisted order; nothing
\* else is restored.
RestoreAllOrNothing ==
    loaded =>
        /\ \A k \in 1..Len(fetched) :
              /\ fetched[k].url \in DOMAIN observables <=> AllRegistered(fetched[k].plugins)
              /\ fetched[k].url \in DOMAIN observables =>
                    observables[fetched[k].url] = fetched[k].plugins
        /\ DOMAIN observables \subseteq {fetched[k].url : k \in 1..Len(fetched)}

\* C19 witness: of two persisted observables the one naming a plugin that is
\* not registered after a registered one was left out, the other was
\* restored with its two plugins.
RestoredOneOfTwo ==
    /\ loaded
    /\ Len(fetched) = 2
    /\ \E k \in 1..2 :
          /\ Len(fetched[k].plugins) = 2
          /\ fetched[k].plugins[1] \in Range(RegisteredNames)
          /\ ~AllRegistered(fetched[k].plugins)
          /\ fetched[k].url \notin DOMAIN observables
    /\ \E u \in DOMAIN observables : Len(observables[u]) = 2

\* the guard has admitted the navigation: its one call of next had no argument
Admitted == guardAt = "done" /\ nextCalls = <<"">>

\* next was called at most once, and once when the guard has returned
NextCalledOnce ==
    /\ Len(nextCalls) <= 1
    /\ guardAt = "done" => Len(nextCalls) = 1

\* an await of the initialisation or of the access upgrade that threw
\* redirected to "/"
FailedWaitRedirects ==
    awaitFailed \in {"init", "upgrade"} => guardAt = "done" /\ nextCalls = <<"/">>

\* C21: the guard calls next exactly once per navigation; a navigation to a
\* route other than /dashboard is admitted only if the route's required
\* level is at most the current level or the passphrase request succeeded;
\* a wait that times out or fails redirects to "/".
GuardAdmitsByLevelOrPassphrase ==
    /\ NextCalledOnce
    /\ FailedWaitRedirects
    /\ (Admitted /\ guardTo.path # "/dashboard") =>
           \/ guardTo.access # NoLevel /\ guardTo.access <= accessAtNext
           \/ passphrase = "granted"

\* C21 as amended: a route that declares no level is admitted as well, once
\* the wait for the access upgrade has returned.
GuardAdmitsByLevelPassphraseOrNoLevel ==
    /\ NextCalledOnce
    /\ FailedWaitRedirects
    /\ (Admitted /\ guardTo.path # "/dashboard") =>
           \/ guardTo.access = NoLevel
           \/ guardTo.access # NoLevel /\ guardTo.access <= accessAtNext
           \/ passphrase = "granted"

\* C21 witness: a navigation to the route of the full level was admitted on
\* the passphrase while the access level was below it.
AdmittedOnPassphrase ==
    /\ Admitted
    /\ guardTo.access = FULL_ACCESS
    /\ accessAtNext < FULL_ACCESS
    /\ passphrase = "granted"

====
